---- MODULE Spec2Model ----
(***************************************************************************)
(* A model of Root/ETL.py: the three-stage batch pipeline run_etl          *)
(* (extract_from_raw -> transform_to_silver -> model_to_gold).             *)
(*                                                                         *)
(* A DataFrame is a sequence of rows; a row is a record of cells; a cell   *)
(* is a tagged value.  The two DataFrame objects made by extract_from_raw  *)
(* live in `heap`, and the names of run_etl (raw_sales, silver_sales, ...) *)
(* hold references into it, so that aliasing is visible.                   *)
(***************************************************************************)
EXTENDS Integers, Sequences, FiniteSets, TLC

(* ------------------------------ bounds -------------------------------- *)

\* Rows of a sales file whose cleaning-relevant columns vary.
MaxRows == 2

\* Rows of a sales file whose geography columns vary.
MaxGeoRows == 3

\* Rows of a forecast file.
MaxFRows == 2

(* ------------------------------- cells -------------------------------- *)

\* JSON null (Python None).
None == [tag |-> "null", s |-> "None", n |-> 0]

\* A key missing from a record: pandas fills the cell with NaN.
NaN == [tag |-> "null", s |-> "NaN", n |-> 0]

\* The null of a datetime column.
NaT == [tag |-> "null", s |-> "NaT", n |-> 0]

Str(x) == [tag |-> "str", s |-> x, n |-> 0]

IntV(k) == [tag |-> "int", s |-> "", n |-> k]

\* A float, held in tenths: Flt(20235) is 2023.5.
Flt(t) == [tag |-> "float", s |-> "", n |-> t]

\* A parsed timestamp.
Ts(x) == [tag |-> "ts", s |-> x, n |-> 0]

\* pandas.isna on one cell: None, NaN and NaT are all null.
isna(c) == c.tag = "null"

(* --------------------------- the Cleaner ------------------------------ *)

\* A fillna that overwrites the column, null or not.
fillna_always(c, value) == Str(value)

\* Series.fillna(value): only null cells are replaced.
fillna(c, value) == IF isna(c) THEN Str(value) ELSE c

\* The date strings pandas.to_datetime can parse, among those of the inputs.
ParseableDates == {"2023-01-01", "2023-02-15"}

\* A parser that accepts nothing but strings and nulls: a column that is
\* already of timestamps is rejected.
DateOkStringsOnly(c) == isna(c) \/ (c.tag = "str" /\ c.s \in ParseableDates)

\* Whether pandas.to_datetime accepts the cell.
DateOk(c) == isna(c) \/ c.tag = "ts" \/ (c.tag = "str" /\ c.s \in ParseableDates)

\* pandas.to_datetime on one accepted cell: null -> NaT, a string is parsed,
\* a timestamp is kept.
to_datetime(c) ==
    IF isna(c) THEN NaT
    ELSE IF c.tag = "ts" THEN c
    ELSE Ts(c.s)

\* Python's int() on the strings of the inputs that are integer literals.
ParseInt(x) == CASE x = "2024" -> 2024 [] x = "2025" -> 2025

IntLiterals == {"2024", "2025"}

\* Whether astype(int) accepts the cell: an int, a finite float, or a string
\* that int() parses.  A null (None or NaN) raises.
IntOk(c) == c.tag = "int" \/ c.tag = "float" \/ (c.tag = "str" /\ c.s \in IntLiterals)

\* astype(int) on one accepted cell: a float is truncated, a string parsed.
astype_int(c) ==
    IF c.tag = "int" THEN c
    ELSE IF c.tag = "float" THEN IntV(c.n \div 10)
    ELSE IntV(ParseInt(c.s))

\* Lines 40-43 on one sales row.
CleanSalesRow(r) ==
    [r EXCEPT !.OrderDate = to_datetime(r.OrderDate),
              !.Name = fillna(r.Name, "Unknown"),
              !.Education = fillna(r.Education, "Not Provided"),
              !.Occupation = fillna(r.Occupation, "Not Provided")]

\* Line 44 on one forecast row.
CleanForecastRow(r) == [r EXCEPT !.Year = astype_int(r.Year)]

\* The to_csv calls of lines 47-48, in their order.
SilverWrites == <<"cleaned_sales.csv", "cleaned_forecast.csv">>

\* A Cleaner that saves cleaned_sales.csv before it converts Year, so that
\* a failing conversion leaves the file behind.
CleanerResultSavingEarly(sales, forecast) ==
    IF Len(sales) = 0
    THEN [err |-> "KeyError", sales |-> sales, forecast |-> forecast, saved |-> <<>>]
    ELSE IF \E i \in 1..Len(sales) : ~DateOk(sales[i].OrderDate)
    THEN [err |-> "DateParseError", sales |-> sales, forecast |-> forecast, saved |-> <<>>]
    ELSE LET cs == [i \in 1..Len(sales) |-> CleanSalesRow(sales[i])]
         IN  IF Len(forecast) = 0
             THEN [err |-> "KeyError", sales |-> cs, forecast |-> forecast,
                   saved |-> <<"cleaned_sales.csv">>]
             ELSE IF \E i \in 1..Len(forecast) : ~IntOk(forecast[i].Year)
             THEN [err |-> "ValueError", sales |-> cs, forecast |-> forecast,
                   saved |-> <<"cleaned_sales.csv">>]
             ELSE [err |-> "none", sales |-> cs,
                   forecast |-> [i \in 1..Len(forecast) |-> CleanForecastRow(forecast[i])],
                   saved |-> SilverWrites]

\* transform_to_silver as a function of the two tables it is given: the
\* error raised ("none" when it returns), the contents of the two DataFrame
\* objects when it ends (the columns are assigned in place, in the order of
\* lines 40-44), and the intermediate files written.  A table of no records
\* has no columns, so the first column access raises.
CleanerResult(sales, forecast) ==
    IF Len(sales) = 0
    THEN [err |-> "KeyError", sales |-> sales, forecast |-> forecast, saved |-> <<>>]
    ELSE IF \E i \in 1..Len(sales) : ~DateOk(sales[i].OrderDate)
    THEN [err |-> "DateParseError", sales |-> sales, forecast |-> forecast, saved |-> <<>>]
    ELSE LET cs == [i \in 1..Len(sales) |-> CleanSalesRow(sales[i])]
         IN  IF Len(forecast) = 0
             THEN [err |-> "KeyError", sales |-> cs, forecast |-> forecast, saved |-> <<>>]
             ELSE IF \E i \in 1..Len(forecast) : ~IntOk(forecast[i].Year)
             THEN [err |-> "ValueError", sales |-> cs, forecast |-> forecast, saved |-> <<>>]
             ELSE [err |-> "none", sales |-> cs,
                   forecast |-> [i \in 1..Len(forecast) |-> CleanForecastRow(forecast[i])],
                   saved |-> SilverWrites]

(* ---------------------- the Dimensional Modeler ------------------------ *)

ProductCols == {"ProductKey", "ProductName", "Brand", "Color", "Subcategory", "Category"}

CustomerCols == {"CustomerKey", "CustomerCode", "Name", "Education", "Occupation"}

GeoCols == {"City", "State", "CountryRegion", "Continent"}

FactCols == {"ProductKey", "CustomerKey", "GeoKey", "OrderDate", "Quantity", "NetPrice"}

\* df[[cols]]: the projection of a table on a set of columns.
Project(t, cols) == [i \in 1..Len(t) |-> [c \in cols |-> t[i][c]]]

\* Equality of two cells for DataFrame.duplicated: the values are factorized
\* with every null (None, NaN, NaT) in one group, so nulls equal each other.
CellEq(a, b) == (isna(a) /\ isna(b)) \/ a = b

\* Full-row equality of two rows over the same columns.
RowEq(r1, r2) == \A c \in DOMAIN r1 : CellEq(r1[c], r2[c])

RECURSIVE KeepFirst(_, _)
\* The rows of t not equal to a row of acc or to an earlier row of t,
\* appended to acc in order (keep='first').
KeepFirst(t, acc) ==
    IF t = <<>> THEN acc
    ELSE IF \E k \in 1..Len(acc) : RowEq(acc[k], Head(t))
         THEN KeepFirst(Tail(t), acc)
         ELSE KeepFirst(Tail(t), Append(acc, Head(t)))

\* DataFrame.drop_duplicates().
drop_duplicates(t) == KeepFirst(t, <<>>)

\* Keys numbered from 0: range(len(dim_geo)).
AssignGeoKeyFromZero(d) == [k \in 1..Len(d) |-> d[k] @@ [GeoKey |-> IntV(k - 1)]]

\* Line 66: the k-th row of the deduplicated table gets GeoKey k.
AssignGeoKey(d) == [k \in 1..Len(d) |-> d[k] @@ [GeoKey |-> IntV(k)]]

\* Lines 65-66.
MakeDimGeo(sales) == AssignGeoKey(drop_duplicates(Project(sales, GeoCols)))

\* SQL's join: a null key matches nothing.
KeyMatchSql(a, b) == ~isna(a) /\ ~isna(b) /\ a = b

\* Whether two join-key cells match in DataFrame.merge: the keys are
\* factorized and the nulls of both sides put in one group, so a null key
\* matches a null key (unlike SQL).
KeyMatch(a, b) == (isna(a) /\ isna(b)) \/ a = b

\* A join that matches on any one column of `on` instead of all of them.
MatchesAnyColumn(l, right, on) ==
    SelectSeq(right, LAMBDA r : \E c \in on : KeyMatch(l[c], r[c]))

\* The rows of `right` matching row l on every column of `on`, in order.
Matches(l, right, on) == SelectSeq(right, LAMBDA r : \A c \in on : KeyMatch(l[c], r[c]))

RECURSIVE Flatten(_)
Flatten(ss) == IF ss = <<>> THEN <<>> ELSE Head(ss) \o Flatten(Tail(ss))

\* left.merge(right, on=on): the inner join, in the order of the left rows;
\* a left row with no match is dropped, one with several is repeated.
merge(left, right, on) ==
    Flatten([i \in 1..Len(left) |->
        LET ms == Matches(left[i], right, on)
        IN  [k \in 1..Len(ms) |-> left[i] @@ ms[k]]])

\* Lines 69-70.
MakeFactSales(sales, dimgeo) == Project(merge(sales, dimgeo, GeoCols), FactCols)

\* The comparison inverted: == for !=.
IntegrityReportInverted(count, nfact) ==
    IF nfact = count
    THEN [kind |-> "print", what |-> "WARNING rows lost", n |-> count - nfact, m |-> 0]
    ELSE [kind |-> "print", what |-> "Integrity Passed", n |-> 0, m |-> 0]

\* Lines 85-88: what the integrity check prints.
IntegrityReport(count, nfact) ==
    IF nfact # count
    THEN [kind |-> "print", what |-> "WARNING rows lost", n |-> count - nfact, m |-> 0]
    ELSE [kind |-> "print", what |-> "Integrity Passed", n |-> 0, m |-> 0]

(* ------------------------------ inputs -------------------------------- *)

BaseRow ==
    [ProductKey |-> IntV(1), ProductName |-> Str("Widget"), Brand |-> Str("B"),
     Color |-> Str("Red"), Subcategory |-> Str("Sub"), Category |-> Str("Cat"),
     CustomerKey |-> IntV(10), CustomerCode |-> Str("C10"), Name |-> Str("Ann"),
     Education |-> Str("BSc"), Occupation |-> Str("Eng"),
     City |-> Str("A"), State |-> Str("S1"), CountryRegion |-> Str("US"),
     Continent |-> Str("NA"),
     OrderDate |-> Str("2023-01-01"), Quantity |-> IntV(2), NetPrice |-> Flt(99)]

\* Sales records whose cleaned columns vary: the date parseable, unparseable
\* or null, and each filled column present or null.
CleanRows ==
    {[BaseRow EXCEPT !.OrderDate = d, !.Name = a, !.Education = e, !.Occupation = o] :
        d \in {Str("2023-01-01"), Str("not-a-date"), None},
        a \in {Str("Ann"), None},
        e \in {Str("BSc"), NaN},
        o \in {Str("Eng"), None}}

\* Geography tuples: a base tuple, tuples differing from it in one column
\* (one of them by a trailing blank only), and tuples with a null City.
GeoTuples ==
    {<<Str("A"), Str("S1"), Str("US"), Str("NA")>>,
     <<Str("A "), Str("S1"), Str("US"), Str("NA")>>,
     <<None, Str("S1"), Str("US"), Str("NA")>>,
     <<NaN, Str("S1"), Str("US"), Str("NA")>>,
     <<Str("A"), Str("S2"), Str("US"), Str("NA")>>,
     <<Str("A"), Str("S1"), Str("CA"), Str("NA")>>,
     <<Str("A"), Str("S1"), Str("US"), Str("EU")>>,
     <<None, Str("S2"), Str("US"), Str("NA")>>}

GeoRows ==
    {[BaseRow EXCEPT !.City = g[1], !.State = g[2], !.CountryRegion = g[3],
                     !.Continent = g[4]] : g \in GeoTuples}

\* A well-formed sales table of two products and two customers.
GoodSales ==
    <<BaseRow,
      [BaseRow EXCEPT !.ProductKey = IntV(2), !.ProductName = Str("Gadget"),
                      !.Color = None, !.CustomerKey = IntV(11),
                      !.CustomerCode = Str("C11"), !.Name = None]>>

ForecastRows ==
    {[ProductKey |-> IntV(1), Year |-> y, Forecast |-> IntV(100)] :
        y \in {IntV(2023), Str("2024"), Str("n/a"), None, Flt(20235)}}

GoodForecast == <<[ProductKey |-> IntV(1), Year |-> Str("2024"), Forecast |-> IntV(100)]>>

\* The tables of at most n rows drawn from S.
Tables(S, n) == UNION {[1..k -> S] : k \in 0..n}

\* A raw file: present with a JSON array of records, absent, or not JSON.
File(rows) == [state |-> "ok", rows |-> rows]

Absent == [state |-> "absent", rows |-> <<>>]

Unparsable == [state |-> "unparsable", rows |-> <<>>]

(* ------------------------------- state -------------------------------- *)

VARIABLES
    disk_sales,      \* the raw sales file
    disk_forecast,   \* the raw forecast file
    pc,              \* where run_etl is
    heap,            \* the DataFrame objects made by extract_from_raw
    raw_sales,       \* run_etl's names: references into heap, 0 when unbound
    raw_forecast,
    silver_sales,
    silver_forecast,
    input_count,     \* model_to_gold's locals
    dim_product,
    dim_customer,
    dim_geo,
    fact_sales,
    files,           \* the output files: written in this run, and with how many rows
    log,             \* what was printed and written, in program order
    error            \* the exception that ended the run, "none" while there is none

vars ==
    <<disk_sales, disk_forecast, pc, heap, raw_sales, raw_forecast, silver_sales,
      silver_forecast, input_count, dim_product, dim_customer, dim_geo, fact_sales,
      files, log, error>>

SilverFiles == {"cleaned_sales.csv", "cleaned_forecast.csv"}

GoldFiles ==
    {"fact_sales.csv", "fact_forecast.csv", "dim_product.csv", "dim_customer.csv",
     "dim_geo.csv"}

FileNames == SilverFiles \cup GoldFiles

\* One printed line, with the numbers it names.
Printed(what, n, m) == [kind |-> "print", what |-> what, n |-> n, m |-> m]

\* One DataFrame.to_csv, with the number of rows written.
Wrote(name, t) == [kind |-> "write", what |-> name, n |-> Len(t), m |-> 0]

\* A to_csv that writes the header and no row.
to_csv_header_only(fs, w) == [fs EXCEPT ![w.what] = [written |-> TRUE, nrows |-> 0]]

\* The files after one to_csv: the file is created or overwritten.
to_csv(fs, w) == [fs EXCEPT ![w.what] = [written |-> TRUE, nrows |-> w.n]]

RECURSIVE WriteAll(_, _)
\* The files after a sequence of to_csv calls.
WriteAll(fs, ws) == IF ws = <<>> THEN fs ELSE WriteAll(to_csv(fs, Head(ws)), Tail(ws))

Init ==
    /\ \/ /\ disk_sales \in {File(t) : t \in Tables(CleanRows, MaxRows)}
          /\ disk_forecast = File(GoodForecast)
       \/ /\ disk_sales \in {File(t) : t \in Tables(GeoRows, MaxGeoRows)}
          /\ disk_forecast = File(GoodForecast)
       \/ /\ disk_sales \in {File(GoodSales), Absent, Unparsable}
          /\ disk_forecast \in
                {File(t) : t \in Tables(ForecastRows, MaxFRows)} \cup {Absent, Unparsable}
    /\ pc = "start"
    /\ heap = <<>>
    /\ raw_sales = 0
    /\ raw_forecast = 0
    /\ silver_sales = 0
    /\ silver_forecast = 0
    /\ input_count = 0
    /\ dim_product = <<>>
    /\ dim_customer = <<>>
    /\ dim_geo = <<>>
    /\ fact_sales = <<>>
    /\ files = [f \in FileNames |-> [written |-> FALSE, nrows |-> 0]]
    /\ log = <<>>
    /\ error = "none"

(* ------------------------------ actions -------------------------------- *)

\* run_etl, lines 91-93: the start line, load_config, setup_environment.
run_etl_start ==
    /\ pc = "start"
    /\ log' = Append(log, Printed("Starting ETL Pipeline...", 0, 0))
    /\ pc' = "bronze"
    /\ UNCHANGED <<disk_sales, disk_forecast, heap, raw_sales, raw_forecast,
                   silver_sales, silver_forecast, input_count, dim_product,
                   dim_customer, dim_geo, fact_sales, files, error>>

\* The exception open() or json.load() raises on a raw file, "none" if none.
LoadError(file) ==
    IF file.state = "absent" THEN "FileNotFoundError"
    ELSE IF file.state = "unparsable" THEN "JSONDecodeError"
    ELSE "none"

\* extract_from_raw and line 96: the sales file is read first; an exception
\* of either read leaves run_etl with nothing bound.
extract_from_raw ==
    /\ pc = "bronze"
    /\ LET e == IF LoadError(disk_sales) # "none" THEN LoadError(disk_sales)
                ELSE LoadError(disk_forecast)
       IN  IF e # "none"
           THEN /\ error' = e
                /\ pc' = "failed"
                /\ UNCHANGED <<heap, raw_sales, raw_forecast, log>>
           ELSE /\ heap' = <<disk_sales.rows, disk_forecast.rows>>
                /\ raw_sales' = 1
                /\ raw_forecast' = 2
                /\ log' = log \o <<Printed("BRONZE VALIDATION", 0, 0),
                                   Printed("Raw Sales Loaded", Len(disk_sales.rows), 0),
                                   Printed("Raw Forecast Loaded", Len(disk_forecast.rows), 0)>>
                /\ pc' = "silver"
                /\ error' = error
    /\ UNCHANGED <<disk_sales, disk_forecast, silver_sales, silver_forecast,
                   input_count, dim_product, dim_customer, dim_geo, fact_sales, files>>

\* The table a file of the intermediate layer is written from.
SilverTable(r, name) == IF name = "cleaned_sales.csv" THEN r.sales ELSE r.forecast

\* transform_to_silver and line 99, called with raw_sales and raw_forecast:
\* the columns are assigned on the objects passed in, which are returned.
transform_to_silver ==
    /\ pc = "silver"
    /\ LET initial_count == Len(heap[raw_sales])
           r == CleanerResult(heap[raw_sales], heap[raw_forecast])
           ws == [k \in 1..Len(r.saved) |-> Wrote(r.saved[k], SilverTable(r, r.saved[k]))]
       IN  /\ heap' = [heap EXCEPT ![raw_sales] = r.sales, ![raw_forecast] = r.forecast]
           /\ files' = WriteAll(files, ws)
           /\ IF r.err # "none"
              THEN /\ error' = r.err
                   /\ pc' = "failed"
                   /\ log' = log \o ws
                   /\ UNCHANGED <<silver_sales, silver_forecast>>
              ELSE /\ log' = log \o ws \o
                               <<Printed("SILVER VALIDATION", 0, 0),
                                 Printed("Cleaned Sales", Len(r.sales),
                                         initial_count - Len(r.sales))>>
                   /\ silver_sales' = raw_sales
                   /\ silver_forecast' = raw_forecast
                   /\ pc' = "gold"
                   /\ error' = error
    /\ UNCHANGED <<disk_sales, disk_forecast, raw_sales, raw_forecast, input_count,
                   dim_product, dim_customer, dim_geo, fact_sales>>

\* model_to_gold, lines 59-70, called with silver_sales: the dimensions and
\* the fact table.
model_to_gold_build ==
    /\ pc = "gold"
    /\ LET df_sales == heap[silver_sales]
           dg == MakeDimGeo(df_sales)
       IN  /\ input_count' = Len(df_sales)
           /\ dim_product' = drop_duplicates(Project(df_sales, ProductCols))
           /\ dim_customer' = drop_duplicates(Project(df_sales, CustomerCols))
           /\ dim_geo' = dg
           /\ fact_sales' = MakeFactSales(df_sales, dg)
    /\ pc' = "gold_save"
    /\ UNCHANGED <<disk_sales, disk_forecast, heap, raw_sales, raw_forecast,
                   silver_sales, silver_forecast, files, log, error>>

\* dim_product written a second time where dim_customer should be.
GoldWritesProductTwice(fact, forecast, dp, dc, dg) ==
    <<Wrote("fact_sales.csv", fact), Wrote("fact_forecast.csv", forecast),
      Wrote("dim_product.csv", dp), Wrote("dim_product.csv", dp),
      Wrote("dim_geo.csv", dg)>>

\* The five to_csv calls of lines 73-77, in their order.
GoldWrites(fact, forecast, dp, dc, dg) ==
    <<Wrote("fact_sales.csv", fact), Wrote("fact_forecast.csv", forecast),
      Wrote("dim_product.csv", dp), Wrote("dim_customer.csv", dc),
      Wrote("dim_geo.csv", dg)>>

\* model_to_gold, lines 72-77: the five final files.
model_to_gold_save ==
    /\ pc = "gold_save"
    /\ LET ws == GoldWrites(fact_sales, heap[silver_forecast], dim_product,
                            dim_customer, dim_geo)
       IN  /\ files' = WriteAll(files, ws)
           /\ log' = log \o ws
    /\ pc' = "gold_check"
    /\ UNCHANGED <<disk_sales, disk_forecast, heap, raw_sales, raw_forecast,
                   silver_sales, silver_forecast, input_count, dim_product,
                   dim_customer, dim_geo, fact_sales, error>>

\* model_to_gold, lines 79-88: the cardinalities and the integrity check;
\* both branches print and return.
model_to_gold_validate ==
    /\ pc = "gold_check"
    /\ log' = log \o <<Printed("GOLD VALIDATION", 0, 0),
                       Printed("Dim_Product", Len(dim_product), 0),
                       Printed("Dim_Customer", Len(dim_customer), 0),
                       Printed("Fact_Sales", Len(fact_sales), 0),
                       IntegrityReport(input_count, Len(fact_sales))>>
    /\ pc' = "banner"
    /\ UNCHANGED <<disk_sales, disk_forecast, heap, raw_sales, raw_forecast,
                   silver_sales, silver_forecast, input_count, dim_product,
                   dim_customer, dim_geo, fact_sales, files, error>>

\* run_etl, lines 104-106: the success banner, then the process ends.
run_etl_banner ==
    /\ pc = "banner"
    /\ log' = Append(log, Printed("ETL SUCCESSFUL", 0, 0))
    /\ pc' = "done"
    /\ UNCHANGED <<disk_sales, disk_forecast, heap, raw_sales, raw_forecast,
                   silver_sales, silver_forecast, input_count, dim_product,
                   dim_customer, dim_geo, fact_sales, files, error>>

Next ==
    \/ run_etl_start
    \/ extract_from_raw
    \/ transform_to_silver
    \/ model_to_gold_build
    \/ model_to_gold_save
    \/ model_to_gold_validate
    \/ run_etl_banner

Spec == Init /\ [][Next]_vars

(* ------------------------ vocabulary of the claims --------------------- *)

\* The positions of the log holding an event named `what`.
LogIdx(what) == {i \in 1..Len(log) : log[i].what = what}

Has(what) == LogIdx(what) # {}

\* The positions of the log where file f was written.
WritesOf(f) == {i \in 1..Len(log) : log[i].kind = "write" /\ log[i].what = f}

\* transform_to_silver has returned.
Cleaned == pc \in {"gold", "gold_save", "gold_check", "banner", "done"}

\* Lines 59-70 of model_to_gold have run.
Modelled == pc \in {"gold_save", "gold_check", "banner", "done"}

\* Two cells hold the same value: the same non-null value, or both no value.
SameValue(a, b) == a = b \/ (a.tag = "null" /\ b.tag = "null")

\* Two rows have the same geography tuple, column by column.
SameGeo(r1, r2) == \A c \in GeoCols : SameValue(r1[c], r2[c])

\* The sales rows that are the first with their geography tuple.
FirstSeen(sales) ==
    {i \in 1..Len(sales) : \A j \in 1..(i - 1) : ~SameGeo(sales[j], sales[i])}

\* The stage an event of the log belongs to: 0 the start, 1 extract,
\* 2 clean, 3 model, 4 the banner.
StageOf(e) ==
    IF e.what = "Starting ETL Pipeline..." THEN 0
    ELSE IF e.what \in {"BRONZE VALIDATION", "Raw Sales Loaded", "Raw Forecast Loaded"} THEN 1
    ELSE IF e.what \in SilverFiles \cup {"SILVER VALIDATION", "Cleaned Sales"} THEN 2
    ELSE IF e.what = "ETL SUCCESSFUL" THEN 4
    ELSE 3

(* ------------------------------- claims -------------------------------- *)

\* C1: the fact table built by model_to_gold has exactly as many rows as the
\* cleaned sales table it was given: every sales row matches exactly one
\* dim_geo row, and the i-th fact row is the i-th sales row, so the join
\* neither drops nor duplicates a row, whatever the geography values
\* (repeated and null ones included).
C1_JoinKeepsRowCount ==
    Modelled =>
        LET sales == heap[silver_sales]
        IN  /\ input_count = Len(sales)
            /\ Len(fact_sales) = Len(sales)
            /\ \A i \in 1..Len(sales) :
                  /\ Cardinality({k \in 1..Len(dim_geo) : SameGeo(sales[i], dim_geo[k])}) = 1
                  /\ i <= Len(fact_sales)
                  /\ fact_sales[i].ProductKey = sales[i].ProductKey
                  /\ fact_sales[i].CustomerKey = sales[i].CustomerKey
                  /\ fact_sales[i].OrderDate = sales[i].OrderDate

\* C1 witness: a run that modelled three sales rows, two of them sharing a
\* geography tuple whose City is null.
C1_Witness ==
    /\ pc = "done"
    /\ Len(fact_sales) = 3
    /\ \E i, j \in 1..Len(heap[silver_sales]) :
          /\ i # j
          /\ SameGeo(heap[silver_sales][i], heap[silver_sales][j])
          /\ isna(heap[silver_sales][i].City)

\* C2: the k-th distinct geography tuple, in order of first appearance in
\* the cleaned sales rows, is the k-th row of dim_geo and has GeoKey k; the
\* GeoKey values are exactly 1..len(dim_geo), none twice.
C2_GeoKeySequential ==
    Modelled =>
        LET sales == heap[silver_sales]
            first == FirstSeen(sales)
        IN  /\ Len(dim_geo) = Cardinality(first)
            /\ \A i \in first :
                  LET k == Cardinality({j \in first : j <= i})
                  IN  /\ dim_geo[k].GeoKey = IntV(k)
                      /\ \A c \in GeoCols : dim_geo[k][c] = sales[i][c]
            /\ {dim_geo[k].GeoKey.n : k \in 1..Len(dim_geo)} = 1..Len(dim_geo)
            /\ \A k, l \in 1..Len(dim_geo) :
                  dim_geo[k].GeoKey = dim_geo[l].GeoKey => k = l

\* C2 witness: three sales rows, the first two with one tuple and the third
\* with another, so that the second distinct tuple is the third row.
C2_Witness ==
    /\ pc = "done"
    /\ Len(heap[silver_sales]) = 3
    /\ SameGeo(heap[silver_sales][1], heap[silver_sales][2])
    /\ ~SameGeo(heap[silver_sales][1], heap[silver_sales][3])
    /\ Len(dim_geo) = 2
    /\ dim_geo[2].GeoKey = IntV(2)

\* C3: two sales rows get the same GeoKey in fact_sales exactly when their
\* geography tuples are equal on all four columns at once; rows with one
\* tuple share one dim_geo row, and a row differing in a single column (be it
\* by a trailing blank) has a dim_geo row and a GeoKey of its own.
C3_SameGeoKeyIffSameTuple ==
    Modelled =>
        LET sales == heap[silver_sales]
        IN  /\ Len(fact_sales) = Len(sales)
            /\ \A i, j \in 1..Len(sales) :
                  (fact_sales[i].GeoKey = fact_sales[j].GeoKey) <=> SameGeo(sales[i], sales[j])
            /\ \A i \in 1..Len(sales) :
                  \E k \in 1..Len(dim_geo) :
                      /\ dim_geo[k].GeoKey = fact_sales[i].GeoKey
                      /\ SameGeo(dim_geo[k], sales[i])
            /\ \A k, l \in 1..Len(dim_geo) : SameGeo(dim_geo[k], dim_geo[l]) => k = l

\* C3 witness: two rows with the tuple (A, S1, US, NA) and a third whose City
\* is "A " got two GeoKeys, the first two rows sharing one.
C3_Witness ==
    /\ pc = "done"
    /\ Len(fact_sales) = 3
    /\ heap[silver_sales][1].City = Str("A")
    /\ heap[silver_sales][3].City = Str("A ")
    /\ \A c \in GeoCols \ {"City"} : heap[silver_sales][1][c] = heap[silver_sales][3][c]
    /\ fact_sales[1].GeoKey = fact_sales[2].GeoKey
    /\ fact_sales[1].GeoKey # fact_sales[3].GeoKey
    /\ Len(dim_geo) = 2

\* C4: the integrity check only reports.  On unequal counts it prints a
\* warning naming input_count - len(fact_sales), on equal counts it prints
\* success; once it has run, no error is set, the run goes on to the banner,
\* and a finished run has printed the banner.
C4_IntegrityCheckNonFatal ==
    /\ \A c, k \in 0..MaxGeoRows :
          IntegrityReport(c, k) =
              IF k # c THEN Printed("WARNING rows lost", c - k, 0)
              ELSE Printed("Integrity Passed", 0, 0)
    /\ Has("GOLD VALIDATION") =>
          /\ error = "none"
          /\ pc \in {"banner", "done"}
          /\ log[Len(log) - (IF pc = "done" THEN 1 ELSE 0)] =
                (IF Len(fact_sales) # input_count
                 THEN Printed("WARNING rows lost", input_count - Len(fact_sales), 0)
                 ELSE Printed("Integrity Passed", 0, 0))
    /\ pc = "banner" => ENABLED run_etl_banner
    /\ pc = "done" => log[Len(log)] = Printed("ETL SUCCESSFUL", 0, 0)

\* C4 witness: a finished run whose check compared two counts of 2 and
\* reported success before the banner.
C4_Witness ==
    /\ pc = "done"
    /\ input_count = 2
    /\ Has("Integrity Passed")
    /\ Has("ETL SUCCESSFUL")

C6_StagesInOrderFilesOnce ==
    /\ \A i, j \in 1..Len(log) : i < j => StageOf(log[i]) <= StageOf(log[j])
    /\ \A f \in FileNames : Cardinality(WritesOf(f)) <= 1
    /\ pc = "silver" => Has("Raw Forecast Loaded") /\ \A i \in 1..Len(log) : StageOf(log[i]) <= 1
    /\ pc = "gold" => Has("Cleaned Sales") /\ \A i \in 1..Len(log) : StageOf(log[i]) <= 2
    /\ Has("ETL SUCCESSFUL") =>
          /\ pc = "done"
          /\ LogIdx("ETL SUCCESSFUL") = {Len(log)}
          /\ \A f \in FileNames : Cardinality(WritesOf(f)) = 1 /\ files[f].written
          /\ \A s \in 1..3 : \E i \in 1..Len(log) : StageOf(log[i]) = s
          /\ Cardinality({i \in 1..Len(log) : log[i].kind = "write"}) = 7

\* C6 witness: a finished run, its banner printed after seven writes.
C6_Witness ==
    /\ pc = "done"
    /\ Has("ETL SUCCESSFUL")
    /\ \A f \in FileNames : WritesOf(f) # {}

\* C7: the tables run_etl holds as raw_sales and raw_forecast keep the
\* contents read from the raw files, and the cleaned tables are other objects.
C7_RawTablesNeverMutated ==
    raw_sales # 0 =>
        /\ heap[raw_sales] = disk_sales.rows
        /\ heap[raw_forecast] = disk_forecast.rows
        /\ silver_sales # raw_sales
        /\ silver_forecast # raw_forecast

\* C8: the cleaned sales table has the rows of the raw one, with Name,
\* Education and Occupation filled exactly where they were null and kept
\* where they were not, every column but those three and OrderDate as it was
\* (a null stays the null it was), and the reported drop count is 0.
C8_FillRules ==
    Cleaned =>
        LET raw == disk_sales.rows
            cleaned == heap[silver_sales]
        IN  /\ Len(cleaned) = Len(raw)
            /\ \A i \in 1..Len(raw) :
                  /\ cleaned[i].Name =
                        (IF raw[i].Name.tag = "null" THEN Str("Unknown") ELSE raw[i].Name)
                  /\ cleaned[i].Education =
                        (IF raw[i].Education.tag = "null" THEN Str("Not Provided")
                         ELSE raw[i].Education)
                  /\ cleaned[i].Occupation =
                        (IF raw[i].Occupation.tag = "null" THEN Str("Not Provided")
                         ELSE raw[i].Occupation)
                  /\ \A c \in DOMAIN raw[i] \ {"OrderDate", "Name", "Education", "Occupation"} :
                        cleaned[i][c] = raw[i][c]
            /\ \E i \in 1..Len(log) : log[i] = Printed("Cleaned Sales", Len(raw), 0)
            /\ \A i \in LogIdx("Cleaned Sales") : log[i].m = 0

\* C8 witness: a cleaned table with a filled Name, a kept Name and a null
\* Color that stayed null.
C8_Witness ==
    /\ pc = "done"
    /\ \E i, j \in 1..Len(disk_sales.rows) :
          /\ disk_sales.rows[i].Name = None
          /\ heap[silver_sales][i].Name = Str("Unknown")
          /\ heap[silver_sales][i].Color = None
          /\ disk_sales.rows[j].Name = Str("Ann")
          /\ heap[silver_sales][j].Name = Str("Ann")

\* C9: the Cleaner applied to the tables it returned raises nothing and
\* returns tables equal to them, field by field.
C9_CleanerIdempotent ==
    Cleaned =>
        LET again == CleanerResult(heap[silver_sales], heap[silver_forecast])
        IN  /\ again.err = "none"
            /\ again.sales = heap[silver_sales]
            /\ again.forecast = heap[silver_forecast]

\* C9 witness: a first pass that parsed a date, filled a null and converted
\* a Year given as a string.
C9_Witness ==
    /\ pc = "gold"
    /\ disk_forecast.rows[1].Year = Str("2024")
    /\ heap[silver_forecast][1].Year = IntV(2024)
    /\ \E i \in 1..Len(disk_sales.rows) :
          /\ disk_sales.rows[i].Name = None
          /\ disk_sales.rows[i].OrderDate = Str("2023-01-01")
          /\ heap[silver_sales][i].OrderDate = Ts("2023-01-01")

\* C10: when the integrity comparison is evaluated the five final files are
\* already written, fact_sales.csv with the row count the comparison reads,
\* and they stay so after it.
C10_FilesWrittenBeforeCheck ==
    /\ pc \in {"gold_check", "banner", "done"} =>
          /\ \A f \in GoldFiles : files[f].written
          /\ files["fact_sales.csv"].nrows = Len(fact_sales)
    /\ \A i \in LogIdx("Integrity Passed") \cup LogIdx("WARNING rows lost") :
          \A f \in GoldFiles : \E j \in WritesOf(f) : j < i
    /\ \A j \in WritesOf("fact_sales.csv") : log[j].n = Len(fact_sales)

\* C10 witness: the check has reported and fact_sales.csv holds three rows.
C10_Witness ==
    /\ pc = "banner"
    /\ Has("Integrity Passed")
    /\ files["fact_sales.csv"] = [written |-> TRUE, nrows |-> 3]

====
